---- MODULE Spec2Model ----
(***************************************************************************)
(* A model of the filename based data cube of yeoda (src/yeoda/yeoda.py):  *)
(* the class eoDataCube with its constructor, rename_dimensions,           *)
(* add_dimension, filter_by_dimension, split_by_dimension and clone.       *)
(*                                                                         *)
(* Python values are modelled as follows.                                  *)
(*   - An optional value (None or an object) is a sequence of length 0 or  *)
(*     1: None is <<>>, the object v is <<v>>.                             *)
(*   - The inventory (a GeoDataFrame) is a record of its column names, in   *)
(*     order, and of its rows, in order; a row is a function from the       *)
(*     column names to values.                                             *)
(*   - Files are the numbers 1..MaxFiles, dimension values are integers,   *)
(*     the null of a data frame is Null.                                   *)
(*   - A call that raises leaves its exception's name in last.error.       *)
(***************************************************************************)
EXTENDS Integers, Sequences, FiniteSets, TLC

\* ------------------------------------------------------------------ bounds
MaxFiles == 2
MaxCubes == 2
MaxPredicates == 2

\* ------------------------------------------------------- optional values
None == <<>>
Some(v) == <<v>>
Val(m) == m[1]

Null == 0 - 1

\* the truth value Python gives a list or None (`if filepaths:`)
Truthy(m) == m # <<>> /\ Val(m) # <<>>

SeqToSet(s) == {s[i] : i \in 1..Len(s)}
Contains(s, x) == \E i \in 1..Len(s) : s[i] = x

RECURSIVE Remove(_, _)
\* list.remove(x): drops the first occurrence of x
Remove(s, x) ==
    IF s = <<>> THEN <<>>
    ELSE IF Head(s) = x THEN Tail(s)
    ELSE <<Head(s)>> \o Remove(Tail(s), x)

\* ------------------------------------------------------------ the files
\* the lists of file paths a cube is built from
FilepathLists == {[i \in 1..n |-> i] : n \in 0..MaxFiles}

\* os.path.splitext of the file: file 2 has an extension yeoda does not know
FileType(f) ==
    CASE f % 3 = 1 -> "GeoTIFF"
      [] f % 3 = 0 -> "NetCDF"
      [] OTHER -> "None"

\* the boundary polygon of a file, None for a file of an unknown type
GeometryFromFile(f) == IF FileType(f) = "None" THEN Null ELSE 100 + f

\* ------------------------------------------------------ the translators
\* the functions given as smart_filename_creator: "sgrt" translates every
\* file name, "broken" raises on every file name, "partial" raises on the
\* file names of the odd files
Creators == {"sgrt", "broken", "partial"}

CreatorRaises(creator, f) ==
    \/ creator = "broken"
    \/ creator = "partial" /\ f % 2 = 1

\* the keys of smart_filename.fields, in the order of the dictionary
FieldKeys == <<"time", "pol">>

\* the value of a field of the translated file name
FieldValue(f, key) ==
    IF key = "time" THEN 1 + (f % 2) ELSE 1 + ((f + 1) % 2)

\* ---------------------------------------------------------- inventories
\* a GeoDataFrame of the given columns and rows
Table(columns, rows) == [columns |-> columns, rows |-> rows]

\* `name in inventory.keys()`
HasColumnOf(inventory, name) == Contains(inventory.columns, name)

\* DataFrame.assign(name=GeoSeries(values, index=inventory.index)): the i-th
\* row gets values[i]; an existing column is overwritten, a new one is
\* appended as the last column
AssignColumn(inventory, name, values) ==
    LET columns == IF Contains(inventory.columns, name) THEN inventory.columns
                   ELSE Append(inventory.columns, name)
    IN  Table(columns,
              [i \in 1..Len(inventory.rows) |->
                  [c \in SeqToSet(columns) |->
                      IF c = name THEN values[i] ELSE inventory.rows[i][c]]])

\* the keys of a translated file name that the inventory keeps
KeptKeys(dimensions) ==
    SelectSeq(FieldKeys,
              LAMBDA key : ~Truthy(dimensions) \/ Contains(Val(dimensions), key))

\* the columns other than `filepath` after the loop over the untranslatable
\* files: the loop replaces the whole column by None
ColumnValue(untrans_filepaths, f, key) ==
    IF untrans_filepaths # <<>> THEN Null ELSE FieldValue(f, key)

\* the requested dimensions survive the construction
BuiltDimensionsKept(dimensions, columns) ==
    IF Truthy(dimensions) THEN dimensions ELSE Some(Remove(columns, "filepath"))

\* `self.dimensions = list(inventory.keys())` and, after the data frame is
\* made, `self.dimensions.remove('filepath')`
BuiltDimensions(dimensions, columns) ==
    Some(Remove(columns, "filepath"))

\* eoDataCube.__inventory_from_filepaths: the dimensions and the inventory of
\* a cube with the given file paths, translator and requested dimensions
InventoryFromFilepaths(filepaths, creator, dimensions) ==
    IF ~Truthy(filepaths)
    THEN [dimensions |-> dimensions, inventory |-> None]
    ELSE
      LET paths == Val(filepaths)
          trans == IF creator = None THEN <<>>
                   ELSE SelectSeq(paths, LAMBDA f : ~CreatorRaises(Val(creator), f))
          untrans == IF creator = None THEN paths
                     ELSE SelectSeq(paths, LAMBDA f : CreatorRaises(Val(creator), f))
          keys == IF trans = <<>> THEN <<>> ELSE KeptKeys(dimensions)
          columns == <<"filepath">> \o keys
          files == trans \o untrans
          rows == [i \in 1..Len(files) |->
                     [c \in SeqToSet(columns) |->
                         IF c = "filepath" THEN files[i]
                         ELSE IF i <= Len(trans)
                              THEN ColumnValue(untrans, files[i], c)
                              ELSE Null]]
      IN  [dimensions |-> BuiltDimensions(dimensions, columns),
           inventory |-> Some(Table(columns, rows))]

\* ------------------------------------------------------------ the cubes
Cube(filepaths, dimensions, inventory, grid, dir_tree, creator) ==
    [filepaths |-> filepaths, dimensions |-> dimensions, inventory |-> inventory,
     grid |-> grid, dir_tree |-> dir_tree, creator |-> creator]

NoCube == Cube(None, None, None, None, None, None)

\* the outcome of a call: it returned (with the cube it built or altered) or
\* it raised
Returned(cube) == [status |-> "ok", error |-> "", cube |-> cube]
Raised(error) == [status |-> "raised", error |-> error, cube |-> NoCube]

\* the body of eoDataCube.add_dimension on an inventory: GeoSeries raises
\* when the number of values differs from the length of the index
AddColumn(inventory, name, values) ==
    IF Len(values) # Len(inventory.rows)
    THEN [status |-> "raised", error |-> "ValueError", inventory |-> inventory]
    ELSE [status |-> "ok", error |-> "", inventory |-> AssignColumn(inventory, name, values)]

\* `self.dimensions = ...` of the constructor
InitialDimensions(dimensions, inventory) ==
    IF Truthy(dimensions) THEN dimensions
    ELSE IF inventory # None THEN Some(Remove(Val(inventory).columns, "filepath"))
    ELSE None

\* eoDataCube.__init__
NewCube(filepaths, grid, dir_tree, creator, dimensions, inventory) ==
    IF ~Truthy(filepaths) /\ dir_tree = None /\ inventory # None
    THEN Raised("ValueError")      \* `elif inventory:` on a data frame
    ELSE
      LET self_filepaths == IF Truthy(filepaths) THEN filepaths
                            ELSE IF dir_tree # None THEN dir_tree
                            ELSE None
          dims0 == InitialDimensions(dimensions, inventory)
          built == IF inventory # None
                   THEN [dimensions |-> dims0, inventory |-> inventory]
                   ELSE InventoryFromFilepaths(self_filepaths, creator, dims0)
          cube == Cube(self_filepaths, built.dimensions, built.inventory,
                       grid, dir_tree, creator)
      IN  IF grid # None THEN Returned(cube)
          ELSE IF built.inventory # None
                  /\ ~Contains(Val(built.inventory).columns, "geometry")
          THEN LET paths == Val(self_filepaths)
                   geometries == [i \in 1..Len(paths) |-> GeometryFromFile(paths[i])]
                   added == AddColumn(Val(built.inventory), "geometry", geometries)
               IN  IF added.status = "raised" THEN Raised(added.error)
                   ELSE Returned([cube EXCEPT !.inventory = Some(added.inventory)])
          ELSE Returned(cube)

\* eoDataCube.from_inventory
FromInventory(inventory, grid, dir_tree) ==
    NewCube(None, grid, dir_tree, None, None, inventory)

\* ------------------------------------------------------- the operations
\* The outcome of a method call on the cube `self`: whether it returned or
\* raised, the cube `self` after the call, the cubes the call created, and
\* what it returned: "self", "new" (the one cube created), "list" (the list
\* of the cubes created) or "none" (None).
Outcome(status, error, self, new, returns) ==
    [status |-> status, error |-> error, self |-> self, new |-> new,
     returns |-> returns]

Raise(error, self) == Outcome("raised", error, self, <<>>, "none")

\* an assignment in place that leaves the inventory of the cube as it is
AssignInventoryKept(self, inventory, in_place) ==
    IF in_place
    THEN Outcome("ok", "", self, <<>>, "self")
    ELSE LET made == FromInventory(inventory, self.grid, self.dir_tree)
         IN  IF made.status = "raised" THEN Raise(made.error, self)
             ELSE Outcome("ok", "", self, <<made.cube>>, "new")

\* eoDataCube.__assign_inventory
AssignInventory(self, inventory, in_place) ==
    IF in_place
    THEN Outcome("ok", "", [self EXCEPT !.inventory = inventory], <<>>, "self")
    ELSE LET made == FromInventory(inventory, self.grid, self.dir_tree)
         IN  IF made.status = "raised" THEN Raise(made.error, self)
             ELSE Outcome("ok", "", self, <<made.cube>>, "new")

\* eoDataCube.add_dimension
AddDimension(self, name, values, in_place) ==
    IF self.inventory = None
    THEN Outcome("ok", "", self, <<>>, "none")
    ELSE LET added == AddColumn(Val(self.inventory), name, values)
         IN  IF added.status = "raised" THEN Raise(added.error, self)
             ELSE AssignInventory(self, Some(added.inventory), in_place)

\* list.index(x), 0 when x is not in the list (Python raises ValueError)
Index(s, x) == IF Contains(s, x) THEN CHOOSE i \in 1..Len(s) :
                                         s[i] = x /\ \A j \in 1..(i - 1) : s[j] # x
               ELSE 0

RECURSIVE RenameLoop(_, _, _, _)
\* the loop of eoDataCube.rename_dimensions over the keys k.. of the map;
\* `if self.inventory:` raises on a data frame, whose truth value is
\* ambiguous
RenameLoop(self, dimensions, dimensions_map, k) ==
    IF k > Len(dimensions_map)
    THEN [status |-> "ok", error |-> "", dimensions |-> dimensions]
    ELSE LET dimension_name == dimensions_map[k][1]
             idx == IF Truthy(dimensions) THEN Index(Val(dimensions), dimension_name) ELSE 0
             renamed == IF Truthy(dimensions)
                        THEN Some([Val(dimensions) EXCEPT ![idx] = dimensions_map[k][2]])
                        ELSE dimensions
         IN  IF Truthy(dimensions) /\ idx = 0
             THEN [status |-> "raised", error |-> "ValueError", dimensions |-> dimensions]
             ELSE IF self.inventory # None
             THEN [status |-> "raised", error |-> "ValueError", dimensions |-> dimensions]
             ELSE RenameLoop(self, renamed, dimensions_map, k + 1)

\* eoDataCube.rename_dimensions; dimensions_map is the list of the
\* (old name, new name) items of the dictionary
RenameDimensions(self, dimensions_map, in_place) ==
    LET loop == RenameLoop(self, self.dimensions, dimensions_map, 1)
        renamed == IF in_place THEN [self EXCEPT !.dimensions = loop.dimensions] ELSE self
    IN  IF loop.status = "raised" THEN Raise(loop.error, self)
        ELSE AssignInventory(renamed, self.inventory, in_place)

\* eoDataCube.clone and eoDataCube.__deepcopy__
Clone(self) ==
    LET made == NewCube(self.filepaths, self.grid, self.dir_tree, self.creator,
                        self.dimensions, self.inventory)
    IN  IF made.status = "raised" THEN Raise(made.error, self)
        ELSE Outcome("ok", "", self, <<made.cube>>, "new")

\* --------------------------------------------------------- the filters
\* A value or an expression of a predicate is a scalar or a tuple; both are
\* kept as the list of their elements with a flag that tells them apart.
Scalar(x) == [tuple |-> FALSE, v |-> <<x>>]
Tuple(xs) == [tuple |-> TRUE, v |-> xs]

\* `if not isinstance(value, (tuple, list)): value = [value]`
AsList(item) == item.v

\* the argument `values` is a list of values or, as in
\* filter_by_dimension("VV", name="pol"), a string: len() and [] of a string
\* count and yield its characters
ListArg(items) == [str |-> FALSE, items |-> items]
StrArg(chars) == [str |-> TRUE, items |-> [i \in 1..Len(chars) |-> Scalar(chars[i])]]

\* an eval that yields the inventory as it is
EvalFilterCmdSkipped(inventory, name, expression, value) ==
    [status |-> "ok", error |-> "", inventory |-> inventory]

\* eval(filter_cmd): the command is the text
\*   "inventory[inventory[name] expression[0] value[0]]"
\* in which the comparator is not substituted, two expressions in a row,
\* which Python refuses to compile
EvalFilterCmd(inventory, name, expression, value) ==
    [status |-> "raised", error |-> "SyntaxError", inventory |-> inventory]

\* a `return` in the place of the `raise`
ShapeErrorSwallowed(value, expression) ==
    [status |-> "returned", error |-> ""]

\* the `raise Exception('Length of value ... does not match ...')`
ShapeError(value, expression) ==
    [status |-> "raised", error |-> "Exception"]

RECURSIVE FilterLoop(_, _, _, _, _, _)
\* the loop of eoDataCube.__filter_by_dimension from the i-th predicate on
FilterLoop(inventory, filtered_inventories, values, expressions, name, i) ==
    LET stop(status, error) ==
            [status |-> status, error |-> error, inventory |-> inventory,
             filtered_inventories |-> filtered_inventories]
    IN  IF i > Len(values.items) THEN stop("ok", "")
        ELSE IF expressions = None THEN stop("raised", "TypeError")
        ELSE IF i > Len(Val(expressions)) THEN stop("raised", "IndexError")
        ELSE
          LET value == AsList(values.items[i])
              expression == AsList(Val(expressions)[i])
          IN  IF \/ Len(value) = 2 /\ Len(expression) = 2
                 \/ Len(value) = 1 /\ Len(expression) = 1
              THEN LET e == EvalFilterCmd(inventory, name, expression, value)
                   IN  IF e.status = "raised" THEN stop("raised", e.error)
                       ELSE FilterLoop(e.inventory, filtered_inventories, values,
                                       expressions, name, i + 1)
              ELSE LET e == ShapeError(value, expression)
                   IN  stop(e.status, e.error)

\* pd.concat(filtered_inventories, ignore_index=True) of a non-empty list
Concat(filtered_inventories) ==
    LET RECURSIVE rows(_)
        rows(k) == IF k > Len(filtered_inventories) THEN <<>>
                   ELSE filtered_inventories[k].rows \o rows(k + 1)
    IN  Table(filtered_inventories[1].columns, rows(1))

RECURSIVE CubesOf(_, _, _)
\* [self.from_inventory(inv, grid=self.grid, dir_tree=self.dir_tree) for inv
\* in filtered_inventories], from the k-th inventory on
CubesOf(self, filtered_inventories, k) ==
    IF k > Len(filtered_inventories) THEN [status |-> "ok", error |-> "", cubes |-> <<>>]
    ELSE LET made == FromInventory(Some(filtered_inventories[k]), self.grid, self.dir_tree)
             rest == CubesOf(self, filtered_inventories, k + 1)
         IN  IF made.status = "raised"
             THEN [status |-> "raised", error |-> made.error, cubes |-> <<>>]
             ELSE IF rest.status = "raised" THEN rest
             ELSE [rest EXCEPT !.cubes = <<made.cube>> \o @]

\* eoDataCube.__filter_by_dimension
FilterByDimension(self, values, expressions, name, split, in_place) ==
    LET loop == FilterLoop(self.inventory, <<>>, values, expressions, name, 1)
    IN  IF loop.status = "raised" THEN Raise(loop.error, self)
        ELSE IF loop.status = "returned" THEN Outcome("ok", "", self, <<>>, "none")
        ELSE IF split
        THEN LET eodcs == CubesOf(self, loop.filtered_inventories, 1)
             IN  IF eodcs.status = "raised" THEN Raise(eodcs.error, self)
                 ELSE Outcome("ok", "", self, eodcs.cubes, "list")
        ELSE IF loop.filtered_inventories = <<>>
        THEN Raise("ValueError", self)     \* No objects to concatenate
        ELSE AssignInventory(self, Some(Concat(loop.filtered_inventories)), in_place)

\* ------------------------------------------------- the temporal splits
\* timestamp.year and timestamp.month of a value of the time dimension: the
\* timestamp 1 is of February 2016, the timestamp 2 of January 2017
Year(timestamp) == 2016 + (timestamp \div 2)
Month(timestamp) == 1 + (timestamp % 2)

\* the part of a timestamp that a split groups by
Part(part, timestamp) ==
    IF part = "year" THEN Year(timestamp) ELSE Month(timestamp)

\* inventory[name]: the values of a column in the order of the rows
Column(inventory, name) ==
    [i \in 1..Len(inventory.rows) |-> inventory.rows[i][name]]

RECURSIVE Unique(_)
\* the keys of a dictionary filled in the order of the list: every element
\* once, in the order of the first occurrences
Unique(s) ==
    IF s = <<>> THEN <<>>
    ELSE LET front == Unique(SubSeq(s, 1, Len(s) - 1))
         IN  IF Contains(front, s[Len(s)]) THEN front ELSE Append(front, s[Len(s)])

\* min() and max() of a list that is not empty
Min(s) == CHOOSE x \in SeqToSet(s) : \A y \in SeqToSet(s) : x <= y
Max(s) == CHOOSE x \in SeqToSet(s) : \A y \in SeqToSet(s) : x >= y

\* The body that get_yearly_dcs and the loop of get_monthly_dcs share: the
\* years (months) to split by, which are the given ones or else the sorted
\* ones of the data, and for each the predicate (min, max) with (">=", "<=")
\* over its timestamps.  None has no column, a missing column is a KeyError,
\* None has no attribute year, and min() of an empty list is a ValueError.
RangePredicates(inventory, name, part, wanted) ==
    LET stop(error) == [status |-> "raised", error |-> error, keys |-> <<>>,
                        values |-> <<>>, expressions |-> <<>>]
    IN  IF inventory = None THEN stop("TypeError")
        ELSE IF ~Contains(Val(inventory).columns, name) THEN stop("KeyError")
        ELSE
          LET column == Column(Val(inventory), name)
              parts == [i \in 1..Len(column) |-> Part(part, column[i])]
              keys == IF Truthy(wanted) THEN Val(wanted)
                      ELSE SortSeq(Unique(parts), LAMBDA a, b : a < b)
              group(key) == SelectSeq(column, LAMBDA t : Part(part, t) = key)
          IN  IF \E i \in 1..Len(column) : column[i] = Null THEN stop("AttributeError")
              ELSE IF \E k \in 1..Len(keys) : group(keys[k]) = <<>> THEN stop("ValueError")
              ELSE [status |-> "ok", error |-> "", keys |-> keys,
                    values |-> [k \in 1..Len(keys) |->
                                   Tuple(<<Min(group(keys[k])), Max(group(keys[k]))>>)],
                    expressions |-> [k \in 1..Len(keys) |-> Tuple(<<">=", "<=">>)]]

\* eoDataCube.get_yearly_dcs
GetYearlyDcs(self, name, years) ==
    LET p == RangePredicates(self.inventory, name, "year", years)
    IN  IF p.status = "raised" THEN Raise(p.error, self)
        ELSE FilterByDimension(self, ListArg(p.values), Some(p.expressions), name,
                               TRUE, FALSE)

RECURSIVE MonthlyLoop(_, _, _, _, _, _)
\* the loop of eoDataCube.get_monthly_dcs from the k-th yearly cube on; the
\* months found in one year are the months asked for in the next one
MonthlyLoop(self, yearly_eodcs, name, months, k, monthly_eodcs) ==
    IF k > Len(yearly_eodcs) THEN Outcome("ok", "", self, monthly_eodcs, "list")
    ELSE LET p == RangePredicates(yearly_eodcs[k].inventory, name, "month", months)
             split == FilterByDimension(self, ListArg(p.values), Some(p.expressions),
                                        name, TRUE, FALSE)
         IN  IF p.status = "raised" THEN Raise(p.error, self)
             ELSE IF split.status = "raised" THEN Raise(split.error, self)
             ELSE MonthlyLoop(self, yearly_eodcs, name, Some(p.keys), k + 1,
                              monthly_eodcs \o split.new)

\* eoDataCube.get_monthly_dcs
GetMonthlyDcs(self, name, months) ==
    LET yearly == GetYearlyDcs(self, name, None)
    IN  IF yearly.status = "raised" THEN Raise(yearly.error, self)
        ELSE MonthlyLoop(self, yearly.new, name, months, 1, <<>>)

\* -------------------------------------------------- the metadata filter
\* ds.get_metadata() of the data set of a file
DsMetadata(f) == IF f % 2 = 1 THEN [band |-> 1, unit |-> 3] ELSE [band |-> 2]

\* `select` of the file: its type is known and its metadata has every
\* requested key with the requested value
Select(f, metadata) ==
    /\ FileType(f) \in {"GeoTIFF", "NetCDF"}
    /\ \A k \in 1..Len(metadata) :
          /\ metadata[k][1] \in DOMAIN DsMetadata(f)
          /\ DsMetadata(f)[metadata[k][1]] = metadata[k][2]

\* eoDataCube.filter_by_metadata; metadata is the list of the (key, value)
\* items of the dictionary.  in_place is not handed to __assign_inventory,
\* whose own default is True.
FilterByMetadata(self, metadata, in_place) ==
    IF self.inventory = None THEN Raise("TypeError", self)
    ELSE LET inventory == Val(self.inventory)
             rows == SelectSeq(inventory.rows,
                               LAMBDA row : Select(row["filepath"], metadata))
         IN  AssignInventory(self, Some(Table(inventory.columns, rows)), TRUE)

\* ------------------------------------------- the operations on cubes
\* The outcome of a function on a list of cubes: whether it returned or
\* raised, all the cubes after the call, the cubes the call created, and
\* what it returned.
OutcomeAll(status, error, all, new, returns) ==
    [status |-> status, error |-> error, all |-> all, new |-> new,
     returns |-> returns]

RaiseAll(error, all) == OutcomeAll("raised", error, all, <<>>, "none")

RECURSIVE ExtendValues(_, _, _, _)
\* `for dc in dcs: values.extend(dc.inventory[name])` from the k-th cube on
ExtendValues(all, dcs, name, k) ==
    IF k > Len(dcs) THEN [status |-> "ok", error |-> "", values |-> <<>>]
    ELSE LET dc == all[dcs[k]]
             rest == ExtendValues(all, dcs, name, k + 1)
         IN  IF dc.inventory = None
             THEN [status |-> "raised", error |-> "TypeError", values |-> <<>>]
             ELSE IF ~Contains(Val(dc.inventory).columns, name)
             THEN [status |-> "raised", error |-> "KeyError", values |-> <<>>]
             ELSE IF rest.status = "raised" THEN rest
             ELSE [rest EXCEPT !.values = Column(Val(dc.inventory), name) \o @]

RECURSIVE MatchLoop(_, _, _, _, _, _, _)
\* the second loop of match_dimension from the k-th cube on: every cube is
\* filtered by the unique values, each with the expression '=='
MatchLoop(all, dcs, unique_values, name, in_place, k, created) ==
    IF k > Len(dcs) THEN OutcomeAll("ok", "", all, created, "list")
    ELSE LET expressions == [i \in 1..Len(unique_values) |-> Scalar("==")]
             values == [i \in 1..Len(unique_values) |-> Scalar(unique_values[i])]
             out == FilterByDimension(all[dcs[k]], ListArg(values), Some(expressions),
                                      name, FALSE, in_place)
         IN  IF out.status = "raised" THEN RaiseAll(out.error, all)
             ELSE MatchLoop([all EXCEPT ![dcs[k]] = out.self], dcs, unique_values,
                            name, in_place, k + 1, created \o out.new)

\* match_dimension(dcs, name, in_place); dcs are the places of the cubes
\* in the list `all` of the cubes that exist
MatchDimension(all, dcs, name, in_place) ==
    LET extended == ExtendValues(all, dcs, name, 1)
    IN  IF extended.status = "raised" THEN RaiseAll(extended.error, all)
        ELSE MatchLoop(all, dcs, Unique(extended.values), name, in_place, 1, <<>>)

\* the name pandas gives a column that both frames of a merge have and that
\* is not a key of the merge
Suffixed(column, side) ==
    CASE column = "filepath" -> IF side = "x" THEN "filepath_x" ELSE "filepath_y"
      [] column = "time" -> IF side = "x" THEN "time_x" ELSE "time_y"
      [] column = "pol" -> IF side = "x" THEN "pol_x" ELSE "pol_y"
      [] column = "geometry" -> IF side = "x" THEN "geometry_x" ELSE "geometry_y"
      [] OTHER -> column

RECURSIVE Flatten(_)
\* the concatenation of the sequences of a sequence
Flatten(ss) == IF ss = <<>> THEN <<>> ELSE Head(ss) \o Flatten(Tail(ss))

\* DataFrame.merge(right, on=name): the inner join on the column `name` or,
\* without a name, on the columns that both frames have
MergeFrames(left, right, name) ==
    LET stop(error) == [status |-> "raised", error |-> error, inventory |-> None]
    IN  IF left = None THEN stop("AttributeError")
        ELSE IF right = None THEN stop("TypeError")
        ELSE
          LET l == Val(left)
              r == Val(right)
              common == SelectSeq(l.columns, LAMBDA c : Contains(r.columns, c))
              keys == IF name = None THEN common ELSE <<Val(name)>>
              lname(c) == IF Contains(keys, c) \/ ~Contains(r.columns, c) THEN c
                          ELSE Suffixed(c, "x")
              rname(c) == IF Contains(l.columns, c) THEN Suffixed(c, "y") ELSE c
              rcolumns == SelectSeq(r.columns, LAMBDA c : ~Contains(keys, c))
              columns == [i \in 1..Len(l.columns) |-> lname(l.columns[i])]
                         \o [i \in 1..Len(rcolumns) |-> rname(rcolumns[i])]
              source(c) == IF \E d \in SeqToSet(l.columns) : lname(d) = c
                           THEN <<"left", CHOOSE d \in SeqToSet(l.columns) : lname(d) = c>>
                           ELSE <<"right", CHOOSE d \in SeqToSet(rcolumns) : rname(d) = c>>
              joined(a, b) == [c \in SeqToSet(columns) |->
                                  IF source(c)[1] = "left" THEN a[source(c)[2]]
                                  ELSE b[source(c)[2]]]
              agree(a, b) == \A k \in 1..Len(keys) : a[keys[k]] = b[keys[k]]
              rows == Flatten([i \in 1..Len(l.rows) |->
                                  LET partners == SelectSeq(r.rows, LAMBDA b : agree(l.rows[i], b))
                                  IN  [j \in 1..Len(partners) |->
                                          joined(l.rows[i], partners[j])]])
          IN  IF name = None /\ common = <<>> THEN stop("MergeError")
              ELSE IF name # None /\ ~(Contains(l.columns, Val(name))
                                       /\ Contains(r.columns, Val(name)))
              THEN stop("KeyError")
              ELSE [status |-> "ok", error |-> "", inventory |-> Some(Table(columns, rows))]

RECURSIVE MergeLoop(_, _, _, _, _)
\* `for dc in dcs: merged_inventory = merged_inventory.merge(...)` from the
\* k-th cube of the shortened list on
MergeLoop(all, dcs, name, k, merged_inventory) ==
    IF k > Len(dcs) THEN [status |-> "ok", error |-> "", inventory |-> merged_inventory]
    ELSE LET merged == MergeFrames(merged_inventory, all[dcs[k]].inventory, name)
         IN  IF merged.status = "raised" THEN merged
             ELSE MergeLoop(all, dcs, name, k + 1, merged.inventory)

\* merge_datacubes(dcs, name).  `dcs = dcs[1:]` drops the first cube from
\* the list before `dcs[0]` is read again, and outside of the class the name
\* __assign_inventory is not the name of the method, which the class keeps
\* as _eoDataCube__assign_inventory.
MergeDatacubes(all, dcs, name) ==
    IF dcs = <<>> THEN RaiseAll("IndexError", all)
    ELSE LET rest == Tail(dcs)
             loop == MergeLoop(all, rest, name, 1, all[dcs[1]].inventory)
         IN  IF loop.status = "raised" THEN RaiseAll(loop.error, all)
             ELSE IF rest = <<>> THEN RaiseAll("IndexError", all)
             ELSE RaiseAll("AttributeError", all)

\* the distance of two values of a dimension
Distance(a, b) == IF a >= b THEN a - b ELSE b - a

\* the row of self that stands for a value of the other cube: the first row
\* with this value or else the first row with a nearest value, given the
\* value
AlignedRow(rows, name, value) ==
    LET best == CHOOSE i \in 1..Len(rows) :
                   \A j \in 1..Len(rows) :
                      \/ Distance(rows[i][name], value) < Distance(rows[j][name], value)
                      \/ /\ Distance(rows[i][name], value) = Distance(rows[j][name], value)
                         /\ i <= j
    IN  [rows[best] EXCEPT ![name] = value]

\* eoDataCube.align_dimension(dc_other, name, in_place): one row of self for
\* every row of the other cube, in the order of the other cube
AlignDimension(self, other, name, in_place) ==
    IF self.inventory = None \/ other.inventory = None THEN Raise("TypeError", self)
    ELSE IF ~(HasColumnOf(Val(self.inventory), name)
              /\ HasColumnOf(Val(other.inventory), name))
    THEN Raise("KeyError", self)
    ELSE LET inventory == Val(self.inventory)
             values == Column(Val(other.inventory), name)
             rows == IF inventory.rows = <<>> THEN <<>>
                     ELSE [i \in 1..Len(values) |->
                              AlignedRow(inventory.rows, name, values[i])]
         IN  AssignInventory(self, Some(Table(inventory.columns, rows)), in_place)

\* --------------------------------------------- intersection and union
\* the columns of an inventory that are dimensions
DimensionsOf(inventory) ==
    SelectSeq(inventory.columns, LAMBDA c : c \notin {"filepath", "geometry"})

\* the cube with another inventory and the dimensions of that inventory
WithInventory(self, inventory) ==
    [self EXCEPT !.inventory = Some(inventory),
                 !.dimensions = Some(DimensionsOf(inventory))]

\* the result of an operation on two cubes: the receiver is altered, or a
\* new cube is made and the receiver is left as it is
SetResult(self, inventory, in_place) ==
    IF in_place THEN Outcome("ok", "", WithInventory(self, inventory), <<>>, "self")
    ELSE Outcome("ok", "", self, <<WithInventory(self, inventory)>>, "new")

\* an intersection that takes an empty result for a fault
IntersectResultNotEmpty(self, inventory, in_place) ==
    IF inventory.rows = <<>> THEN Raise("ValueError", self)
    ELSE SetResult(self, inventory, in_place)

\* the result of an intersection: an inventory without rows is a result
\* like any other
IntersectResult(self, inventory, in_place) ==
    SetResult(self, inventory, in_place)

\* the rows agree on the key columns
SameKey(a, b, keys) == \A k \in 1..Len(keys) : a[keys[k]] = b[keys[k]]

\* the i-th row of `rows` has a partner of its own among `others`: fewer
\* rows before it have its key than rows of `others` have
Paired(rows, others, keys, i) ==
    Cardinality({j \in 1..(i - 1) : SameKey(rows[j], rows[i], keys)})
       < Cardinality({j \in 1..Len(others) : SameKey(others[j], rows[i], keys)})

\* eoDataCube.intersect(dc_other, on_dimension, in_place): the columns that
\* both cubes have, and the rows of self that have a partner in the other
\* cube with the same value on `on_dimension` or, without a dimension, on
\* all the common columns
Intersect(self, other, on_dimension, in_place) ==
    IF self.inventory = None \/ other.inventory = None THEN Raise("TypeError", self)
    ELSE
      LET l == Val(self.inventory)
          r == Val(other.inventory)
          columns == SelectSeq(l.columns, LAMBDA c : HasColumnOf(r, c))
          keys == IF on_dimension = None THEN columns ELSE <<Val(on_dimension)>>
          kept == SelectSeq([i \in 1..Len(l.rows) |-> i],
                            LAMBDA i : Paired(l.rows, r.rows, keys, i))
          rows == [k \in 1..Len(kept) |->
                      [c \in SeqToSet(columns) |-> l.rows[kept[k]][c]]]
      IN  IF on_dimension # None /\ ~Contains(columns, Val(on_dimension))
          THEN Raise("KeyError", self)
          ELSE IntersectResult(self, Table(columns, rows), in_place)

\* a union that keeps the columns both cubes have
UnitedColumnsCommon(left, right) ==
    SelectSeq(left.columns, LAMBDA c : HasColumnOf(right, c))

\* the columns of a union: those of the first cube, then those that only
\* the second cube has
UnitedColumns(left, right) ==
    left.columns \o SelectSeq(right.columns, LAMBDA c : ~HasColumnOf(left, c))

\* the row with the given columns: null where the row has no value
Widened(row, columns) ==
    [c \in SeqToSet(columns) |-> IF c \in DOMAIN row THEN row[c] ELSE Null]

\* eoDataCube.unite(dc_other, in_place): the rows of both cubes over the
\* columns of both, without the rows that are there already
Unite(self, other, in_place) ==
    IF self.inventory = None \/ other.inventory = None THEN Raise("TypeError", self)
    ELSE
      LET l == Val(self.inventory)
          r == Val(other.inventory)
          columns == UnitedColumns(l, r)
          all == [i \in 1..Len(l.rows) |-> Widened(l.rows[i], columns)]
                 \o [i \in 1..Len(r.rows) |-> Widened(r.rows[i], columns)]
      IN  SetResult(self, Table(columns, Unique(all)), in_place)

\* ------------------------------------------------------------ arguments
FilepathArgs == {Some(l) : l \in FilepathLists}
GridArgs == {None, Some("Equi7Grid")}
\* a SmartTree is kept as its file_register
DirTreeArgs == {None, Some([i \in 1..MaxFiles |-> i])}
CreatorArgs == {None} \cup {Some(c) : c \in Creators}
DimensionArgs == {None, Some(<<"time">>)}

AddNames == {"value", "time"}
AddValues == {[i \in 1..n |-> 6 + i] : n \in 0..MaxFiles}

\* the items of the dictionaries given to rename_dimensions
DimensionMaps == {<<>>, << <<"time", "t">> >>, << <<"tile", "t">> >>}

FilterNames == {"pol", "tile"}
ValueItems == {Scalar(1), Tuple(<<1, 2>>), Tuple(<<1, 2, 1>>)}
ExpressionItems == {Scalar("=="), Tuple(<<">=", "<=">>), Tuple(<<">=", "<=", "!=">>)}

ListsOf(S, n) == UNION {[1..k -> S] : k \in 0..n}

\* the string "VV" is the characters 86, 86
ValuesArgs == {ListArg(l) : l \in ListsOf(ValueItems, MaxPredicates)} \cup {StrArg(<<86, 86>>)}
ExpressionsArgs == {None} \cup {Some(l) : l \in ListsOf(ExpressionItems, MaxPredicates)}

SplitNames == {"time", "tile"}
YearsArgs == {None, Some(<<2016>>), Some(<<2017, 2016>>), Some(<<2015>>)}
MonthsArgs == {None, Some(<<1>>), Some(<<2, 1>>), Some(<<3>>)}

\* the dimensions requested for a cube that is to be renamed, and the items
\* of the dictionaries given to rename_dimensions, among them maps to a
\* name that is taken
RenameDimensionArgs == DimensionArgs \cup {Some(<<"time", "pol">>)}
RenameMaps == DimensionMaps \cup {<< <<"time", "pol">> >>, << <<"pol", "time">> >>}

\* the names given to match_dimension and align_dimension, and to
\* merge_datacubes, whose name is optional
PairNames == {"time", "tile"}
MergeNames == {None, Some("time"), Some("tile")}

\* the lists of file paths of the cubes that are intersected and united:
\* the files from the i-th to the j-th
FileRanges == {[k \in 1..(j - i + 1) |-> i + k - 1] : i \in 1..MaxFiles, j \in 1..MaxFiles}
                 \ {<<>>}
OnDimensionArgs == {None, Some("time"), Some("tile")}

\* the items of the dictionaries given to filter_by_metadata
MetadataArgs ==
    {<<>>, << <<"band", 1>> >>, << <<"band", 2>> >>,
     << <<"band", 1>>, <<"unit", 3>> >>, << <<"orbit", 1>> >>}

\* ---------------------------------------------------------------- state
VARIABLES
    cubes,      \* the data cubes that exist, in the order of their creation
    last        \* the last call: its arguments and its outcome

vars == <<cubes, last>>

\* the caller is in no call; also the values of the arguments that a call
\* does not have
NoCall ==
    [op |-> "none", self |-> 0, in_place |-> FALSE, name |-> "",
     values |-> ListArg(<<>>), expressions |-> None, dimensions_map |-> <<>>,
     column |-> <<>>, filepaths |-> None, grid |-> None, dir_tree |-> None,
     creator |-> None, dimensions |-> None,
     years |-> None, months |-> None, metadata |-> <<>>, other |-> 0,
     dcs |-> <<>>, on |-> None,
     status |-> "ok", error |-> "", returns |-> "none", new |-> <<>>]

\* the call `call` on the cube cubes[c] with the outcome `out`: the cubes it
\* created are added to the cubes that exist
Do(call, c, out) ==
    /\ last = NoCall
    /\ Len(cubes) + Len(out.new) <= MaxCubes
    /\ cubes' = [cubes EXCEPT ![c] = out.self] \o out.new
    /\ last' = [status |-> out.status, error |-> out.error, returns |-> out.returns,
                new |-> [i \in 1..Len(out.new) |-> Len(cubes) + i]]
               @@ call @@ NoCall

\* the record of the call eoDataCube(filepaths, grid, dir_tree,
\* smart_filename_creator, dimensions) that made the cubes `new`
InitCall(filepaths, grid, dir_tree, creator, dimensions, made, new) ==
    [op |-> "init", filepaths |-> filepaths, grid |-> grid,
     dir_tree |-> dir_tree, creator |-> creator, dimensions |-> dimensions,
     status |-> made.status, error |-> made.error,
     returns |-> IF made.status = "ok" THEN "new" ELSE "none",
     new |-> [i \in 1..Len(new) |-> Len(cubes) + i]]
    @@ NoCall

\* no cube exists
NoCubes ==
    /\ cubes = <<>>
    /\ last = NoCall

\* eoDataCube(filepaths, grid, dir_tree, smart_filename_creator, dimensions)
Construct(filepaths, grid, dir_tree, creator, dimensions) ==
    LET made == NewCube(filepaths, grid, dir_tree, creator, dimensions, None)
        new == IF made.status = "ok" THEN <<made.cube>> ELSE <<>>
    IN  /\ last = NoCall
        /\ cubes = <<>>
        /\ cubes' = new
        /\ last' = InitCall(filepaths, grid, dir_tree, creator, dimensions, made, new)

\* the state after the construction of one cube
Init ==
    \E filepaths \in FilepathArgs, grid \in GridArgs, dir_tree \in DirTreeArgs,
       creator \in CreatorArgs, dimensions \in DimensionArgs :
       LET made == NewCube(filepaths, grid, dir_tree, creator, dimensions, None)
       IN  /\ cubes = IF made.status = "ok" THEN <<made.cube>> ELSE <<>>
           /\ last = [InitCall(filepaths, grid, dir_tree, creator, dimensions, made, <<>>)
                        EXCEPT !.new = IF made.status = "ok" THEN <<1>> ELSE <<>>]

\* eoDataCube.from_inventory(cubes[c].inventory, grid, dir_tree)
ConstructFromInventory(c, grid, dir_tree) ==
    LET made == FromInventory(cubes[c].inventory, grid, dir_tree)
        new == IF made.status = "ok" THEN <<made.cube>> ELSE <<>>
    IN  Do([op |-> "from_inventory", self |-> c, grid |-> grid, dir_tree |-> dir_tree],
           c, Outcome(made.status, made.error, cubes[c], new,
                      IF made.status = "ok" THEN "new" ELSE "none"))

\* cubes[c].rename_dimensions(dimensions_map, in_place)
CallRenameDimensions(c, dimensions_map, in_place) ==
    Do([op |-> "rename_dimensions", self |-> c, dimensions_map |-> dimensions_map,
        in_place |-> in_place],
       c, RenameDimensions(cubes[c], dimensions_map, in_place))

\* cubes[c].add_dimension(name, values, in_place)
CallAddDimension(c, name, values, in_place) ==
    Do([op |-> "add_dimension", self |-> c, name |-> name, column |-> values,
        in_place |-> in_place],
       c, AddDimension(cubes[c], name, values, in_place))

\* cubes[c].filter_by_dimension(values, expressions, name, in_place)
CallFilterByDimension(c, values, expressions, name, in_place) ==
    Do([op |-> "filter_by_dimension", self |-> c, values |-> values,
        expressions |-> expressions, name |-> name, in_place |-> in_place],
       c, FilterByDimension(cubes[c], values, expressions, name, FALSE, in_place))

\* cubes[c].split_by_dimension(values, expressions, name)
CallSplitByDimension(c, values, expressions, name) ==
    Do([op |-> "split_by_dimension", self |-> c, values |-> values,
        expressions |-> expressions, name |-> name],
       c, FilterByDimension(cubes[c], values, expressions, name, TRUE, FALSE))

\* cubes[c].clone()
CallClone(c) ==
    Do([op |-> "clone", self |-> c], c, Clone(cubes[c]))

\* cubes[c].get_yearly_dcs(name, years)
CallGetYearlyDcs(c, name, years) ==
    Do([op |-> "get_yearly_dcs", self |-> c, name |-> name, years |-> years],
       c, GetYearlyDcs(cubes[c], name, years))

\* cubes[c].get_monthly_dcs(name, months)
CallGetMonthlyDcs(c, name, months) ==
    Do([op |-> "get_monthly_dcs", self |-> c, name |-> name, months |-> months],
       c, GetMonthlyDcs(cubes[c], name, months))

\* cubes[c].filter_by_metadata(metadata, in_place)
CallFilterByMetadata(c, metadata, in_place) ==
    Do([op |-> "filter_by_metadata", self |-> c, metadata |-> metadata,
        in_place |-> in_place],
       c, FilterByMetadata(cubes[c], metadata, in_place))

\* the call `call` of a function on a list of cubes, with the outcome `out`
DoAll(call, out) ==
    /\ last = NoCall
    /\ Len(cubes) + Len(out.new) <= MaxCubes + 1
    /\ cubes' = out.all \o out.new
    /\ last' = [status |-> out.status, error |-> out.error, returns |-> out.returns,
                new |-> [i \in 1..Len(out.new) |-> Len(cubes) + i]]
               @@ call @@ NoCall

\* two cubes exist, each built from file paths without a grid and without
\* requested dimensions
TwoCubes ==
    /\ \E c \in [1..2 -> FilepathArgs \X DirTreeArgs \X CreatorArgs] :
          LET made == [i \in 1..2 |->
                          NewCube(c[i][1], None, c[i][2], c[i][3], None, None)]
          IN  /\ \A i \in 1..2 : made[i].status = "ok"
              /\ cubes = [i \in 1..2 |-> made[i].cube]
    /\ last = NoCall

\* the cubes of a list of one or two of the cubes that exist
CubeLists == UNION {[1..n -> 1..Len(cubes)] : n \in 1..2}

\* match_dimension(dcs, name, in_place); cubes[c].match_dimension(cubes[d],
\* name, in_place) is match_dimension([cubes[c], cubes[d]], ...)[0]
CallMatchDimension(dcs, name, in_place) ==
    DoAll([op |-> "match_dimension", dcs |-> dcs, name |-> name, in_place |-> in_place],
          MatchDimension(cubes, dcs, name, in_place))

\* merge_datacubes(dcs, name); cubes[c].merge(cubes[d], name) is
\* merge_datacubes([cubes[c], cubes[d]], name)
CallMergeDatacubes(dcs, name) ==
    DoAll([op |-> "merge_datacubes", dcs |-> dcs, on |-> name],
          MergeDatacubes(cubes, dcs, name))

\* cubes[c].align_dimension(cubes[d], name, in_place)
CallAlignDimension(c, d, name, in_place) ==
    Do([op |-> "align_dimension", self |-> c, other |-> d, name |-> name,
        in_place |-> in_place],
       c, AlignDimension(cubes[c], cubes[d], name, in_place))

\* one cube exists, built with one dimension or two requested
OneCube ==
    /\ \E filepaths \in FilepathArgs, grid \in GridArgs, dir_tree \in DirTreeArgs,
          creator \in CreatorArgs, dimensions \in RenameDimensionArgs :
          LET made == NewCube(filepaths, grid, dir_tree, creator, dimensions, None)
          IN  /\ made.status = "ok"
              /\ cubes = <<made.cube>>
    /\ last = NoCall

\* two cubes exist, each built from a range of the files without a grid
\* and without a directory tree
TwoCubesOfFiles ==
    /\ \E c \in [1..2 -> FileRanges \X CreatorArgs \X DimensionArgs] :
          LET made == [i \in 1..2 |->
                          NewCube(Some(c[i][1]), None, None, c[i][2], c[i][3], None)]
          IN  /\ \A i \in 1..2 : made[i].status = "ok"
              /\ cubes = [i \in 1..2 |-> made[i].cube]
    /\ last = NoCall

\* the call `call` on the cube cubes[c], which may make one cube more than
\* Do lets exist
DoOne(call, c, out) ==
    DoAll(call, OutcomeAll(out.status, out.error, [cubes EXCEPT ![c] = out.self],
                           out.new, out.returns))

\* cubes[c].intersect(cubes[d], on_dimension, in_place)
CallIntersect(c, d, on_dimension, in_place) ==
    DoOne([op |-> "intersect", self |-> c, other |-> d, on |-> on_dimension,
           in_place |-> in_place],
          c, Intersect(cubes[c], cubes[d], on_dimension, in_place))

\* cubes[c].unite(cubes[d], in_place)
CallUnite(c, d, in_place) ==
    DoOne([op |-> "unite", self |-> c, other |-> d, in_place |-> in_place],
          c, Unite(cubes[c], cubes[d], in_place))

\* the caller goes on to its next statement
Continue ==
    /\ last # NoCall
    /\ last' = NoCall
    /\ UNCHANGED cubes

\* a call of each operation, when the caller is not in another call, with
\* arguments from the sets above
FromInventoryStep ==
    /\ last = NoCall
    /\ \E c \in 1..Len(cubes), grid \in GridArgs, dir_tree \in DirTreeArgs :
          ConstructFromInventory(c, grid, dir_tree)

RenameStep ==
    /\ last = NoCall
    /\ \E c \in 1..Len(cubes), dimensions_map \in DimensionMaps, in_place \in BOOLEAN :
          CallRenameDimensions(c, dimensions_map, in_place)

AddStep ==
    /\ last = NoCall
    /\ \E c \in 1..Len(cubes), name \in AddNames, values \in AddValues,
          in_place \in BOOLEAN :
          CallAddDimension(c, name, values, in_place)

CloneStep ==
    /\ last = NoCall
    /\ \E c \in 1..Len(cubes) : CallClone(c)

ConstructStep ==
    /\ last = NoCall
    /\ \E filepaths \in FilepathArgs, grid \in GridArgs, dir_tree \in DirTreeArgs,
          creator \in CreatorArgs, dimensions \in DimensionArgs :
          Construct(filepaths, grid, dir_tree, creator, dimensions)

FilterStep ==
    /\ last = NoCall
    /\ \E c \in 1..Len(cubes), values \in ValuesArgs, expressions \in ExpressionsArgs,
          name \in FilterNames, in_place \in BOOLEAN :
          CallFilterByDimension(c, values, expressions, name, in_place)

SplitStep ==
    /\ last = NoCall
    /\ \E c \in 1..Len(cubes), values \in ValuesArgs, expressions \in ExpressionsArgs,
          name \in FilterNames :
          CallSplitByDimension(c, values, expressions, name)

YearlyStep ==
    /\ last = NoCall
    /\ \E c \in 1..Len(cubes), name \in SplitNames, years \in YearsArgs :
          CallGetYearlyDcs(c, name, years)

MonthlyStep ==
    /\ last = NoCall
    /\ \E c \in 1..Len(cubes), name \in SplitNames, months \in MonthsArgs :
          CallGetMonthlyDcs(c, name, months)

MetadataStep ==
    /\ last = NoCall
    /\ \E c \in 1..Len(cubes), metadata \in MetadataArgs, in_place \in BOOLEAN :
          CallFilterByMetadata(c, metadata, in_place)

MatchStep ==
    /\ last = NoCall
    /\ \E dcs \in CubeLists, name \in PairNames, in_place \in BOOLEAN :
          CallMatchDimension(dcs, name, in_place)

MergeStep ==
    /\ last = NoCall
    /\ \E dcs \in CubeLists, name \in MergeNames :
          CallMergeDatacubes(dcs, name)

AlignStep ==
    /\ last = NoCall
    /\ \E c \in 1..Len(cubes), d \in 1..Len(cubes), name \in PairNames,
          in_place \in BOOLEAN :
          CallAlignDimension(c, d, name, in_place)

RenameAnyStep ==
    /\ last = NoCall
    /\ \E c \in 1..Len(cubes), dimensions_map \in RenameMaps, in_place \in BOOLEAN :
          CallRenameDimensions(c, dimensions_map, in_place)

IntersectStep ==
    /\ last = NoCall
    /\ Len(cubes) = 2
    /\ \E c \in 1..Len(cubes), d \in 1..Len(cubes), on_dimension \in OnDimensionArgs,
          in_place \in BOOLEAN :
          CallIntersect(c, d, on_dimension, in_place)

UniteStep ==
    /\ last = NoCall
    /\ Len(cubes) = 2
    /\ \E c \in 1..Len(cubes), d \in 1..Len(cubes), in_place \in BOOLEAN :
          CallUnite(c, d, in_place)

\* the operations on one cube and on the cubes derived from it
Next ==
    \/ FromInventoryStep
    \/ RenameStep
    \/ AddStep
    \/ CloneStep
    \/ Continue

Spec == Init /\ [][Next]_vars

\* the construction of a cube from file paths
NextBuild ==
    \/ ConstructStep
    \/ Continue

SpecBuild == NoCubes /\ [][NextBuild]_vars

\* the filters on a cube built from file paths
NextFilter ==
    \/ FilterStep
    \/ SplitStep
    \/ Continue

SpecFilter == Init /\ [][NextFilter]_vars

\* the temporal splits and the metadata filter on a cube built from file
\* paths
NextSplit ==
    \/ YearlyStep
    \/ MonthlyStep
    \/ MetadataStep
    \/ Continue

SpecSplit == Init /\ [][NextSplit]_vars

\* the operations on two cubes built from file paths
NextPair ==
    \/ MatchStep
    \/ MergeStep
    \/ AlignStep
    \/ Continue

SpecPair == TwoCubes /\ [][NextPair]_vars

\* the renaming of the dimensions of a cube
NextRename ==
    \/ RenameAnyStep
    \/ Continue

SpecRename == OneCube /\ [][NextRename]_vars

\* the intersection and the union of two cubes built from file paths
NextSets ==
    \/ IntersectStep
    \/ UniteStep
    \/ Continue

SpecSets == TwoCubesOfFiles /\ [][NextSets]_vars

\* =================================================================
\* Properties
\* =================================================================

\* what a comparator of a predicate says of a value of a column and a value
\* of the predicate; nothing compares with null
Holds(op, a, b) ==
    /\ a # Null
    /\ CASE op = "==" -> a = b
         [] op = "!=" -> a # b
         [] op = ">=" -> a >= b
         [] op = "<=" -> a <= b
         [] op = ">" -> a > b
         [] op = "<" -> a < b
         [] OTHER -> FALSE

\* the row satisfies every comparison of the predicate
Satisfies(row, name, value, expression) ==
    \A k \in 1..Len(value) : Holds(expression[k], row[name], value[k])

\* the rows that satisfy the predicate, in their order
RowSubset(rows, name, value, expression) ==
    SelectSeq(rows, LAMBDA row : Satisfies(row, name, value, expression))

RECURSIVE ConcatSubsets(_, _, _, _, _)
\* the row subsets of the predicates i.., one after the other
ConcatSubsets(rows, name, values, expressions, i) ==
    IF i > Len(values) THEN <<>>
    ELSE RowSubset(rows, name, AsList(values[i]), AsList(expressions[i]))
         \o ConcatSubsets(rows, name, values, expressions, i + 1)

\* the predicates are given as a list of values and a list of as many
\* expressions, each value with an expression of its shape
WellFormed(values, expressions) ==
    /\ ~values.str
    /\ expressions # None
    /\ Len(Val(expressions)) = Len(values.items)
    /\ \A i \in 1..Len(values.items) :
          /\ Len(AsList(values.items[i])) = Len(AsList(Val(expressions)[i]))
          /\ Len(AsList(values.items[i])) \in {1, 2}

\* some predicate has a value and an expression whose numbers of elements
\* differ or exceed 2
Malformed(values, expressions) ==
    /\ expressions # None
    /\ \E i \in 1..Len(values.items) :
          /\ i <= Len(Val(expressions))
          /\ \/ Len(AsList(values.items[i])) # Len(AsList(Val(expressions)[i]))
             \/ Len(AsList(values.items[i])) > 2
             \/ Len(AsList(Val(expressions)[i])) > 2

HasColumn(cube, name) ==
    cube.inventory # None /\ Contains(Val(cube.inventory).columns, name)

\* the step is the call of `op`
Calls(op) == last.op = "none" /\ last'.op = op

\* the rows of the cube that the call has returned
ReturnedRows ==
    IF last'.returns = "self" THEN Val(cubes'[last'.self].inventory).rows
    ELSE Val(cubes'[last'.new[1]].inventory).rows

\* C1: filter_by_dimension with N predicates returns the concatenation, in
\* the order of the predicates, of the N subsets of the rows of the original
\* inventory that satisfy one predicate each.
C1_FilterConcatenatesSubsets ==
    [][(/\ Calls("filter_by_dimension")
        /\ WellFormed(last'.values, last'.expressions)
        /\ Len(last'.values.items) >= 1
        /\ HasColumn(cubes[last'.self], last'.name))
       => /\ last'.status = "ok"
          /\ last'.returns \in {"self", "new"}
          /\ ReturnedRows =
                ConcatSubsets(Val(cubes[last'.self].inventory).rows, last'.name,
                              last'.values.items, Val(last'.expressions), 1)]_vars

\* C2: split_by_dimension with N predicates returns a list of N cubes, the
\* i-th holding the rows of the original inventory that satisfy the i-th
\* predicate, a cube without rows included.
C2_SplitReturnsOneCubePerPredicate ==
    [][(/\ Calls("split_by_dimension")
        /\ WellFormed(last'.values, last'.expressions)
        /\ HasColumn(cubes[last'.self], last'.name))
       => /\ last'.status = "ok"
          /\ last'.returns = "list"
          /\ Len(last'.new) = Len(last'.values.items)
          /\ \A i \in 1..Len(last'.new) :
                Val(cubes'[last'.new[i]].inventory).rows =
                   RowSubset(Val(cubes[last'.self].inventory).rows, last'.name,
                             AsList(last'.values.items[i]),
                             AsList(Val(last'.expressions)[i]))]_vars

\* the value of the column `pol` that the characters of a string spell
Polarisation(chars) == IF chars = <<86, 86>> THEN 1 ELSE 2

\* C3: filter_by_dimension with one scalar value and no expressions returns
\* the rows whose value on the dimension equals the scalar, and does not
\* fail.
C3_ScalarDefaultsToEquality ==
    [][(/\ Calls("filter_by_dimension")
        /\ last'.values.str
        /\ last'.expressions = None
        /\ HasColumn(cubes[last'.self], last'.name))
       => /\ last'.status = "ok"
          /\ last'.returns \in {"self", "new"}
          /\ ReturnedRows =
                RowSubset(Val(cubes[last'.self].inventory).rows, last'.name,
                          <<Polarisation([i \in 1..Len(last'.values.items) |->
                                             last'.values.items[i].v[1]])>>,
                          <<"==">>)]_vars

\* C4: a range predicate with the value (lo, hi) and the expression
\* (op_lo, op_hi) keeps the rows for which both comparisons hold.
C4_RangeKeepsRowsInInterval ==
    [][(/\ Calls("filter_by_dimension")
        /\ WellFormed(last'.values, last'.expressions)
        /\ Len(last'.values.items) = 1
        /\ Len(AsList(last'.values.items[1])) = 2
        /\ HasColumn(cubes[last'.self], last'.name))
       => /\ last'.status = "ok"
          /\ last'.returns \in {"self", "new"}
          /\ \A row \in SeqToSet(Val(cubes[last'.self].inventory).rows) :
                Contains(ReturnedRows, row) <=>
                   /\ Holds(AsList(Val(last'.expressions)[1])[1], row[last'.name],
                            AsList(last'.values.items[1])[1])
                   /\ Holds(AsList(Val(last'.expressions)[1])[2], row[last'.name],
                            AsList(last'.values.items[1])[2])
          /\ SeqToSet(ReturnedRows) \subseteq
                SeqToSet(Val(cubes[last'.self].inventory).rows)]_vars

\* C10: filter_by_dimension with a predicate whose value and expression
\* differ in their numbers of elements, or have more than 2, raises and
\* leaves every cube as it was, also in place and also when the predicate is
\* not the first one.
C10_MalformedPredicateRaisesUnchanged ==
    [][(/\ Calls("filter_by_dimension")
        /\ Malformed(last'.values, last'.expressions))
       => /\ last'.status = "raised"
          /\ cubes' = cubes]_vars

\* a filter in place whose second predicate is malformed, after a first one
\* that is not, has raised on a cube with an inventory of several rows
C10_Witness ==
    /\ last.op = "filter_by_dimension"
    /\ last.in_place
    /\ last.expressions # None
    /\ Len(last.values.items) >= 2
    /\ Len(Val(last.expressions)) >= 2
    /\ Len(AsList(last.values.items[1])) = Len(AsList(Val(last.expressions)[1]))
    /\ Len(AsList(last.values.items[2])) # Len(AsList(Val(last.expressions)[2]))
    /\ last.status = "raised"
    /\ HasColumn(cubes[last.self], last.name)
    /\ Len(Val(cubes[last.self].inventory).rows) >= 2

\* the dimension columns of an inventory: all but `filepath` and `geometry`
DimensionColumns(inventory) ==
    SeqToSet(inventory.columns) \ {"filepath", "geometry"}

\* the arguments of add_dimension and rename_dimensions fit the cube
FitsCube(call, cube) ==
    /\ cube.inventory # None
    /\ call.op = "add_dimension" => Len(call.column) = Len(Val(cube.inventory).rows)
    /\ call.op = "rename_dimensions" =>
          /\ cube.dimensions # None
          /\ call.dimensions_map # <<>>
          /\ \A k \in 1..Len(call.dimensions_map) :
                /\ Contains(Val(cube.dimensions), call.dimensions_map[k][1])
                /\ ~Contains(Val(cube.dimensions), call.dimensions_map[k][2])
    /\ call.op = "filter_by_dimension" =>
          /\ WellFormed(call.values, call.expressions)
          /\ Len(call.values.items) >= 1
          /\ HasColumn(cube, call.name)

\* C5: filter_by_dimension, rename_dimensions and add_dimension return a new
\* cube and leave the receiver as it was when in_place is False, and return
\* the receiver when in_place is True.
C5_InPlaceOrNewCube ==
    [][(/\ last.op = "none"
        /\ last'.op \in {"filter_by_dimension", "rename_dimensions", "add_dimension"}
        /\ FitsCube(last', cubes[last'.self]))
       => /\ last'.status = "ok"
          /\ ~last'.in_place =>
                /\ last'.returns = "new"
                /\ cubes'[last'.self] = cubes[last'.self]
          /\ last'.in_place => last'.returns = "self"]_vars

\* C6: clone returns a cube with the inventory and the dimensions of the
\* original, and no call on one cube changes another cube.
C6_CloneIsIndependentCopy ==
    /\ [](last.op = "clone" =>
             /\ last.status = "ok"
             /\ cubes[last.new[1]].inventory = cubes[last.self].inventory
             /\ cubes[last.new[1]].dimensions = cubes[last.self].dimensions)
    /\ [][\A d \in 1..Len(cubes) : d # last'.self => cubes'[d] = cubes[d]]_vars

\* C7: the dimensions of every cube are the columns of its inventory other
\* than `filepath` and `geometry`.
C7_DimensionsMatchColumns ==
    \A c \in 1..Len(cubes) :
       cubes[c].inventory # None =>
          /\ cubes[c].dimensions # None
          /\ SeqToSet(Val(cubes[c].dimensions)) = DimensionColumns(Val(cubes[c].inventory))

\* the rows of the inventory that hold the file f
RowsOf(inventory, f) ==
    {i \in 1..Len(inventory.rows) : inventory.rows[i]["filepath"] = f}

\* C8: a cube built from file paths with a translator has one row per file
\* path; in the dimension columns the row of a translated file holds the
\* translated values and the row of an untranslatable file holds null.
C8_OneRowPerFileWithItsValues ==
    (/\ last.op = "init"
     /\ last.creator # None
     /\ Truthy(cubes[1].filepaths))
    => LET inventory == Val(cubes[1].inventory)
           paths == Val(cubes[1].filepaths)
       IN  /\ Len(inventory.rows) = Len(paths)
           /\ \A k \in 1..Len(paths) :
                 /\ Cardinality(RowsOf(inventory, paths[k])) = 1
                 /\ \A i \in RowsOf(inventory, paths[k]) :
                       \A c \in DimensionColumns(inventory) :
                          inventory.rows[i][c] =
                             IF CreatorRaises(Val(last.creator), paths[k]) THEN Null
                             ELSE FieldValue(paths[k], c)

\* the translator raises on every file of the cube
FailsOnAll(creator, filepaths) ==
    /\ creator # None
    /\ \A k \in 1..Len(filepaths) : CreatorRaises(Val(creator), filepaths[k])

FiltersUnknownDimension ==
    /\ \/ Calls("filter_by_dimension")
       \/ Calls("split_by_dimension")
    /\ WellFormed(last'.values, last'.expressions)
    /\ Len(last'.values.items) >= 1
    /\ cubes[last'.self].inventory # None
    /\ ~HasColumn(cubes[last'.self], last'.name)

\* C11: filter_by_dimension and split_by_dimension with a dimension name
\* that is not a column of the inventory raise for every non-empty list of
\* well-formed predicates and leave every cube as it was.
C11_UnknownDimensionRaisesUnchanged ==
    [][FiltersUnknownDimension
       => /\ last'.status = "raised"
          /\ cubes' = cubes]_vars

\* split_by_dimension with two well-formed predicates on the dimension
\* `tile`, which is no column, has raised on a cube of several rows
C11_Witness ==
    /\ last.op = "split_by_dimension"
    /\ last.name = "tile"
    /\ WellFormed(last.values, last.expressions)
    /\ Len(last.values.items) >= 2
    /\ last.status = "raised"
    /\ cubes[last.self].inventory # None
    /\ ~HasColumn(cubes[last.self], "tile")
    /\ Len(Val(cubes[last.self].inventory).rows) >= 2

\* the elements of a set of numbers in ascending order
RECURSIVE Ascending(_)
Ascending(S) ==
    IF S = {} THEN <<>>
    ELSE LET least == CHOOSE x \in S : \A y \in S : x <= y
         IN  <<least>> \o Ascending(S \ {least})

\* the call is on a cube whose inventory has the column `name` with a
\* timestamp in every row
SplitsTimestamps(call, cube) ==
    /\ HasColumn(cube, call.name)
    /\ \A i \in 1..Len(Val(cube.inventory).rows) :
          Val(cube.inventory).rows[i][call.name] # Null

\* the years a yearly split considers: the requested ones, or else the
\* years of the data in ascending order
ConsideredYears(rows, name, years) ==
    IF years # None THEN Val(years)
    ELSE Ascending({Year(rows[i][name]) : i \in 1..Len(rows)})

\* C12: get_yearly_dcs returns one cube per considered year (every year of
\* the data in ascending order, or the requested years), and the cube of a
\* year holds exactly the rows of the cube whose timestamp is of that year.
C12_YearlySplitReturnsOneCubePerYear ==
    [][(/\ Calls("get_yearly_dcs")
        /\ SplitsTimestamps(last', cubes[last'.self]))
       => LET rows == Val(cubes[last'.self].inventory).rows
              years == ConsideredYears(rows, last'.name, last'.years)
          IN  /\ last'.status = "ok"
              /\ last'.returns = "list"
              /\ Len(last'.new) = Len(years)
              /\ \A k \in 1..Len(last'.new) :
                    Val(cubes'[last'.new[k]].inventory).rows =
                       SelectSeq(rows, LAMBDA row : Year(row[last'.name]) = years[k])]_vars

\* the (year, month) pairs that have data, in ascending order
YearMonthPairs(rows, name) ==
    LET years == Ascending({Year(rows[i][name]) : i \in 1..Len(rows)})
        months(y) == Ascending({Month(rows[i][name]) :
                                   i \in {j \in 1..Len(rows) : Year(rows[j][name]) = y}})
        RECURSIVE pairs(_)
        pairs(k) == IF k > Len(years) THEN <<>>
                    ELSE [m \in 1..Len(months(years[k])) |->
                             <<years[k], months(years[k])[m]>>] \o pairs(k + 1)
    IN  pairs(1)

\* C13: get_monthly_dcs without months returns one cube per (year, month)
\* pair that has data, holding exactly the rows of that year and month; with
\* months, every returned cube holds only rows of a requested month.
C13_MonthlySplitReturnsOneCubePerYearAndMonth ==
    [][(/\ Calls("get_monthly_dcs")
        /\ SplitsTimestamps(last', cubes[last'.self]))
       => LET rows == Val(cubes[last'.self].inventory).rows
              pairs == YearMonthPairs(rows, last'.name)
          IN  /\ last'.status = "ok"
              /\ last'.returns = "list"
              /\ last'.months = None =>
                    /\ Len(last'.new) = Len(pairs)
                    /\ \A k \in 1..Len(last'.new) :
                          Val(cubes'[last'.new[k]].inventory).rows =
                             SelectSeq(rows, LAMBDA row :
                                          /\ Year(row[last'.name]) = pairs[k][1]
                                          /\ Month(row[last'.name]) = pairs[k][2])
              /\ last'.months # None =>
                    \A k \in 1..Len(last'.new) :
                       \A row \in SeqToSet(Val(cubes'[last'.new[k]].inventory).rows) :
                          Contains(Val(last'.months), Month(row[last'.name]))]_vars

\* C19: filter_by_metadata with in_place False returns a new cube of exactly
\* the rows whose file is of a known type and has the requested metadata,
\* and leaves the receiver as it was; with in_place True the receiver gets
\* these rows.
C19_MetadataFilterInPlaceOrNewCube ==
    [][(/\ Calls("filter_by_metadata")
        /\ cubes[last'.self].inventory # None)
       => LET rows == Val(cubes[last'.self].inventory).rows
              kept == SelectSeq(rows, LAMBDA row : Select(row["filepath"], last'.metadata))
          IN  /\ last'.status = "ok"
              /\ ~last'.in_place =>
                    /\ last'.returns = "new"
                    /\ Val(cubes'[last'.new[1]].inventory).rows = kept
                    /\ cubes'[last'.self] = cubes[last'.self]
              /\ last'.in_place =>
                    /\ last'.returns = "self"
                    /\ Val(cubes'[last'.self].inventory).rows = kept]_vars

\* the set of the values of a cube on a dimension
ValueSet(cube, name) == SeqToSet(Column(Val(cube.inventory), name))

\* C14: match_dimension([A, B], name) returns two cubes, in the order of
\* the input, whose sets of values on `name` are equal, also when the sets
\* of values of A and B differ.
C14_MatchGivesEqualValueSets ==
    [][(/\ Calls("match_dimension")
        /\ Len(last'.dcs) = 2
        /\ \A k \in 1..2 : HasColumn(cubes[last'.dcs[k]], last'.name))
       => LET matched == IF last'.in_place THEN last'.dcs ELSE last'.new
          IN  /\ last'.status = "ok"
              /\ last'.returns = "list"
              /\ Len(matched) = 2
              /\ ValueSet(cubes'[matched[1]], last'.name)
                    = ValueSet(cubes'[matched[2]], last'.name)]_vars

\* the dimension columns that the inventories of all the cubes have
CommonDimensions(all, dcs) ==
    {c \in DimensionColumns(Val(all[dcs[1]].inventory)) :
        \A k \in 1..Len(dcs) : HasColumn(all[dcs[k]], c)}

\* C15: merge_datacubes(dcs, name) returns one cube for a list of one cube
\* and for a list of two: it has the files of all the cubes, no row twice
\* and, as dimensions, the dimensions common to all the cubes.
C15_MergeReturnsOneCube ==
    [][(/\ Calls("merge_datacubes")
        /\ \A k \in 1..Len(last'.dcs) :
              /\ cubes[last'.dcs[k]].inventory # None
              /\ last'.on # None => HasColumn(cubes[last'.dcs[k]], Val(last'.on)))
       => /\ last'.status = "ok"
          /\ last'.returns = "new"
          /\ LET merged == cubes'[last'.new[1]]
                 rows == Val(merged.inventory).rows
             IN  /\ \A i, j \in 1..Len(rows) : rows[i] = rows[j] => i = j
                 /\ SeqToSet(Val(merged.dimensions)) = CommonDimensions(cubes, last'.dcs)
                 /\ last'.on = None =>
                       ValueSet(merged, "filepath") =
                          UNION {ValueSet(cubes[last'.dcs[k]], "filepath") :
                                    k \in 1..Len(last'.dcs)}]_vars

\* how often a value occurs in a list
Count(s, v) == Cardinality({i \in 1..Len(s) : s[i] = v})

\* the call aligns, in place, a cube to a cube, both with a value on the
\* dimension `name` in every row
AlignsInPlace(call, all) ==
    /\ call.in_place
    /\ \A c \in {call.self, call.other} :
          /\ HasColumn(all[c], call.name)
          /\ \A i \in 1..Len(Val(all[c].inventory).rows) :
                Val(all[c].inventory).rows[i][call.name] # Null

ResultCube ==
    IF last'.in_place THEN cubes'[last'.self] ELSE cubes'[last'.new[1]]

\* the cube has the dimension: the name is in its list of dimensions
HasDimension(cube, name) ==
    cube.dimensions # None /\ Contains(Val(cube.dimensions), name)

\* C16: rename_dimensions({old: new}) on a cube with the dimension `old`
\* gives a cube in which `new` is a column and a dimension and `old` is
\* neither, with the values of the column and all other columns unchanged;
\* renaming a dimension that the cube does not have raises.
C16_RenameRenamesDimensionAndColumn ==
    [][(/\ Calls("rename_dimensions")
        /\ Len(last'.dimensions_map) = 1
        /\ cubes[last'.self].inventory # None)
       => LET old == last'.dimensions_map[1][1]
              new == last'.dimensions_map[1][2]
              before == cubes[last'.self]
          IN  IF HasDimension(before, old) /\ HasColumn(before, old)
              THEN /\ last'.status = "ok"
                   /\ HasColumn(ResultCube, new) /\ HasDimension(ResultCube, new)
                   /\ ~HasColumn(ResultCube, old) /\ ~HasDimension(ResultCube, old)
                   /\ Column(Val(ResultCube.inventory), new)
                         = Column(Val(before.inventory), old)
                   /\ \A c \in SeqToSet(Val(before.inventory).columns) \ {old} :
                         /\ HasColumn(ResultCube, c)
                         /\ Column(Val(ResultCube.inventory), c)
                               = Column(Val(before.inventory), c)
              ELSE last'.status = "raised"]_vars

\* no name is twice in the list
Distinct(s) == \A i, j \in 1..Len(s) : s[i] = s[j] => i = j

\* C17: rename_dimensions with a map to a name that is already a dimension
\* of the cube raises, and the dimensions of every cube stay distinct.
C17_RenameCollisionRaises ==
    [][(/\ Calls("rename_dimensions")
        /\ \E k \in 1..Len(last'.dimensions_map) :
              /\ HasDimension(cubes[last'.self], last'.dimensions_map[k][1])
              /\ HasDimension(cubes[last'.self], last'.dimensions_map[k][2]))
       => /\ last'.status = "raised"
          /\ \A c \in 1..Len(cubes') :
                cubes'[c].dimensions # None => Distinct(Val(cubes'[c].dimensions))]_vars

\* C18: add_dimension(name, values) succeeds exactly when there are as many
\* values as rows; the inventory then has the column `name` with values[i]
\* in its i-th row and every other column as before.  Otherwise it raises
\* and leaves every cube as it was.
C18_AddDimensionChecksLength ==
    [][(/\ Calls("add_dimension")
        /\ cubes[last'.self].inventory # None)
       => LET before == Val(cubes[last'.self].inventory)
          IN  IF Len(last'.column) = Len(before.rows)
              THEN /\ last'.status = "ok"
                   /\ HasColumn(ResultCube, last'.name)
                   /\ Column(Val(ResultCube.inventory), last'.name) = last'.column
                   /\ \A c \in SeqToSet(before.columns) \ {last'.name} :
                         /\ HasColumn(ResultCube, c)
                         /\ Column(Val(ResultCube.inventory), c) = Column(before, c)
              ELSE /\ last'.status = "raised"
                   /\ cubes' = cubes]_vars

\* C23: in a cube built from file paths without a grid, the geometry of
\* every row of the inventory is the boundary of the file of that row, also
\* when the translator fails on some of the files and not on others.
C23_GeometryBelongsToRowFile ==
    (/\ last.op = "init"
     /\ last.status = "ok"
     /\ last.grid = None
     /\ cubes[1].inventory # None)
    => LET rows == Val(cubes[1].inventory).rows
       IN  /\ HasColumn(cubes[1], "geometry")
           /\ \A i \in 1..Len(rows) :
                 rows[i]["geometry"] = GeometryFromFile(rows[i]["filepath"])

\* the smaller of two numbers
Smaller(a, b) == IF a <= b THEN a ELSE b

DimensionSet(cube) == SeqToSet(Val(cube.dimensions))

\* the inventory holds the row, with null in the columns the row lacks
HoldsWidened(inventory, row) ==
    \E i \in 1..Len(inventory.rows) :
       \A c \in SeqToSet(inventory.columns) :
          inventory.rows[i][c] = IF c \in DOMAIN row THEN row[c] ELSE Null

====
